---------------------------- MODULE Spec2Model ----------------------------
(***************************************************************************)
(* Model of the WASI binding surface of test_sdk.wit: the classes          *)
(* TcpSocket, UdpSocket, IncomingDatagramStream, OutgoingDatagramStream,   *)
(* ResolveAddressStream, Descriptor, DirectoryEntryStream, Network, Run    *)
(* and the module-level functions resolve_addresses and                    *)
(* filesystem_error_code.                                                  *)
(*                                                                         *)
(* State: the instance attributes of every object (Python's __dict__) and  *)
(* the log of the calls made so far, each with its arguments and its       *)
(* outcome (a returned value or a raised exception).                       *)
(***************************************************************************)
EXTENDS Naturals, Sequences, FiniteSets

VARIABLES attrs, calls

vars == <<attrs, calls>>

\* Longest call sequence explored.
MaxCalls == 2

-----------------------------------------------------------------------------
(* The declaration surface.                                                *)

TcpSocketMethods ==
    { "start_bind", "finish_bind", "start_connect", "finish_connect",
      "start_listen", "finish_listen", "accept", "local_address",
      "remote_address", "is_listening", "address_family",
      "set_listen_backlog_size", "keep_alive_enabled",
      "set_keep_alive_enabled", "keep_alive_idle_time",
      "set_keep_alive_idle_time", "keep_alive_interval",
      "set_keep_alive_interval", "keep_alive_count", "set_keep_alive_count",
      "hop_limit", "set_hop_limit", "receive_buffer_size",
      "set_receive_buffer_size", "send_buffer_size", "set_send_buffer_size",
      "subscribe", "shutdown", "__enter__", "__exit__" }

UdpSocketMethods ==
    { "start_bind", "finish_bind", "stream", "local_address",
      "remote_address", "address_family", "unicast_hop_limit",
      "set_unicast_hop_limit", "receive_buffer_size",
      "set_receive_buffer_size", "send_buffer_size", "set_send_buffer_size",
      "subscribe", "__enter__", "__exit__" }

IncomingDatagramStreamMethods ==
    { "receive", "subscribe", "__enter__", "__exit__" }

OutgoingDatagramStreamMethods ==
    { "check_send", "send", "subscribe", "__enter__", "__exit__" }

ResolveAddressStreamMethods ==
    { "resolve_next_address", "subscribe", "__enter__", "__exit__" }

DirectoryEntryStreamMethods ==
    { "read_directory_entry", "__enter__", "__exit__" }

DescriptorMethods ==
    { "read_via_stream", "write_via_stream", "append_via_stream", "advise",
      "sync_data", "get_flags", "get_type", "set_size", "set_times", "read",
      "write", "read_directory", "sync", "create_directory_at", "stat",
      "stat_at", "set_times_at", "link_at", "open_at", "readlink_at",
      "remove_directory_at", "rename_at", "symlink_at", "unlink_file_at",
      "is_same_object", "metadata_hash", "metadata_hash_at",
      "__enter__", "__exit__" }

NetworkMethods == { "__enter__", "__exit__" }

RunMethods == { "run" }

\* Module-level functions, called on the module that defines them.
IpNameLookupFunctions == { "resolve_addresses" }

FilesystemFunctions == { "filesystem_error_code" }

ShutdownType == { "RECEIVE", "SEND", "BOTH" }

Classes ==
    { "TcpSocket", "UdpSocket", "IncomingDatagramStream",
      "OutgoingDatagramStream", "ResolveAddressStream",
      "DirectoryEntryStream", "Descriptor", "Network", "Run",
      "ip_name_lookup", "wasi_filesystem_types" }

Methods(cls) ==
    CASE cls = "TcpSocket" -> TcpSocketMethods
      [] cls = "UdpSocket" -> UdpSocketMethods
      [] cls = "IncomingDatagramStream" -> IncomingDatagramStreamMethods
      [] cls = "OutgoingDatagramStream" -> OutgoingDatagramStreamMethods
      [] cls = "ResolveAddressStream" -> ResolveAddressStreamMethods
      [] cls = "DirectoryEntryStream" -> DirectoryEntryStreamMethods
      [] cls = "Descriptor" -> DescriptorMethods
      [] cls = "Network" -> NetworkMethods
      [] cls = "Run" -> RunMethods
      [] cls = "ip_name_lookup" -> IpNameLookupFunctions
      [] cls = "wasi_filesystem_types" -> FilesystemFunctions

-----------------------------------------------------------------------------
(* The objects of a run: one instance of every class, two networks, and    *)
(* the two modules that define functions.                                  *)

Networks == { "net1", "net2" }

Addresses == { "addr1", "addr2" }

Objects ==
    { "tcp", "udp", "incoming", "outgoing", "resolver", "dirstream",
      "descriptor", "runner", "ip_name_lookup", "wasi_filesystem_types" }
    \cup Networks

ClassOf(o) ==
    CASE o = "tcp" -> "TcpSocket"
      [] o = "udp" -> "UdpSocket"
      [] o = "incoming" -> "IncomingDatagramStream"
      [] o = "outgoing" -> "OutgoingDatagramStream"
      [] o = "resolver" -> "ResolveAddressStream"
      [] o = "dirstream" -> "DirectoryEntryStream"
      [] o = "descriptor" -> "Descriptor"
      [] o = "runner" -> "Run"
      [] o \in Networks -> "Network"
      [] OTHER -> o

\* The flag enumerations of wasi_filesystem_types; a flags value is a set of
\* members.
DescriptorFlags ==
    { "READ", "WRITE", "FILE_INTEGRITY_SYNC", "DATA_INTEGRITY_SYNC",
      "REQUESTED_WRITE_SYNC", "MUTATE_DIRECTORY" }

PathFlags == { "SYMLINK_FOLLOW" }

OpenFlags == { "CREATE", "DIRECTORY", "EXCLUSIVE", "TRUNCATE" }

\* The (path_flags, path, open_flags, flags) tuples tried for
\* Descriptor.open_at: a plain read-only open, and one open for each flag
\* that asks for more than reading.
OpenAtArgs ==
    { <<{}, "path", of, fl>> :
        of \in { {} }, fl \in { {"READ"}, {"WRITE"}, {"MUTATE_DIRECTORY"} } }
    \cup
    { <<{}, "path", of, {"READ"}>> : of \in { {"CREATE"}, {"TRUNCATE"} } }

\* The argument tuples tried for a method.  Numbers are passed as the
\* strings "0" and "1" ("0" is the value the setters document as invalid).
ArgsOf(cls, m) ==
    CASE cls \in {"TcpSocket", "UdpSocket"} /\ m \in {"start_bind", "start_connect"}
           -> { <<n, a>> : n \in Networks, a \in Addresses }
      [] cls = "UdpSocket" /\ m = "stream"
           -> { <<"None">> } \cup { <<a>> : a \in Addresses }
      [] cls = "TcpSocket" /\ m = "shutdown"
           -> { <<t>> : t \in ShutdownType }
      [] cls \in {"TcpSocket", "UdpSocket"}
         /\ m \in { "set_listen_backlog_size", "set_keep_alive_idle_time",
                    "set_keep_alive_interval", "set_keep_alive_count",
                    "set_hop_limit", "set_unicast_hop_limit",
                    "set_receive_buffer_size", "set_send_buffer_size" }
           -> { <<"0">>, <<"1">> }
      [] cls = "TcpSocket" /\ m = "set_keep_alive_enabled"
           -> { <<"False">>, <<"True">> }
      [] cls = "Descriptor" /\ m = "open_at" -> OpenAtArgs
      [] OTHER -> { <<>> }

-----------------------------------------------------------------------------
(* Outcomes of a call.                                                     *)

Return(v) == [kind |-> "return", exc |-> "none", value |-> v]

Raise(e) == [kind |-> "raise", exc |-> e, value |-> "none"]

\* `raise Err(code)`: the documented way a method reports an error code.
Err(code) == [kind |-> "raise", exc |-> "Err", value |-> code]

NotImplemented == Raise("NotImplementedError")


-----------------------------------------------------------------------------
(* The method bodies.  Each operator gives, for a call of method m on      *)
(* object self with arguments args while self's attributes are a, the      *)
(* outcome of the call and self's attributes after it.  The only body that *)
(* is not `raise NotImplementedError` is __enter__, which is `return self`;*)
(* no body assigns or reads an attribute.                                  *)

\* Faulty variant of TcpSocketCall: finish_bind reports completion instead of raising.
TcpSocketCall_FinishBindReturns(self, m, args, a) ==
    [ outcome |-> IF m \in {"__enter__", "finish_bind"}
                  THEN Return(IF m = "__enter__" THEN self ELSE "None")
                  ELSE NotImplemented,
      attrs   |-> a ]

\* Faulty variant of TcpSocketCall: start_bind records the bind on the socket and a bind that is
\* already recorded is rejected.
TcpSocketCall_Stateful(self, m, args, a) ==
    [ outcome |-> IF m = "__enter__" THEN Return(self)
                  ELSE IF m = "start_bind" /\ <<"state", "bind-in-progress">> \in a
                       THEN Err("invalid-state")
                       ELSE NotImplemented,
      attrs   |-> IF m = "start_bind"
                  THEN a \cup { <<"state", "bind-in-progress">> }
                  ELSE a ]

TcpSocketCall(self, m, args, a) ==
    [ outcome |-> IF m = "__enter__" THEN Return(self) ELSE NotImplemented,
      attrs   |-> a ]

UdpSocketCall(self, m, args, a) ==
    [ outcome |-> IF m = "__enter__" THEN Return(self) ELSE NotImplemented,
      attrs   |-> a ]

IncomingDatagramStreamCall(self, m, args, a) ==
    [ outcome |-> IF m = "__enter__" THEN Return(self) ELSE NotImplemented,
      attrs   |-> a ]

OutgoingDatagramStreamCall(self, m, args, a) ==
    [ outcome |-> IF m = "__enter__" THEN Return(self) ELSE NotImplemented,
      attrs   |-> a ]

ResolveAddressStreamCall(self, m, args, a) ==
    [ outcome |-> IF m = "__enter__" THEN Return(self) ELSE NotImplemented,
      attrs   |-> a ]

DirectoryEntryStreamCall(self, m, args, a) ==
    [ outcome |-> IF m = "__enter__" THEN Return(self) ELSE NotImplemented,
      attrs   |-> a ]

DescriptorCall(self, m, args, a) ==
    [ outcome |-> IF m = "__enter__" THEN Return(self) ELSE NotImplemented,
      attrs   |-> a ]

NetworkCall(self, m, args, a) ==
    [ outcome |-> IF m = "__enter__" THEN Return(self) ELSE NotImplemented,
      attrs   |-> a ]

\* Run.run, the one method of the exported protocol.
RunCall(self, m, args, a) ==
    [ outcome |-> NotImplemented, attrs |-> a ]

\* resolve_addresses(network, name)
resolve_addresses(self, m, args, a) ==
    [ outcome |-> NotImplemented, attrs |-> a ]

\* filesystem_error_code(err)
filesystem_error_code(self, m, args, a) ==
    [ outcome |-> NotImplemented, attrs |-> a ]

\* Python's dispatch of self.m(*args) to the body the class of self defines.
Invoke(self, m, args, a) ==
    CASE ClassOf(self) = "TcpSocket" -> TcpSocketCall(self, m, args, a)
      [] ClassOf(self) = "UdpSocket" -> UdpSocketCall(self, m, args, a)
      [] ClassOf(self) = "IncomingDatagramStream"
           -> IncomingDatagramStreamCall(self, m, args, a)
      [] ClassOf(self) = "OutgoingDatagramStream"
           -> OutgoingDatagramStreamCall(self, m, args, a)
      [] ClassOf(self) = "ResolveAddressStream"
           -> ResolveAddressStreamCall(self, m, args, a)
      [] ClassOf(self) = "DirectoryEntryStream"
           -> DirectoryEntryStreamCall(self, m, args, a)
      [] ClassOf(self) = "Descriptor" -> DescriptorCall(self, m, args, a)
      [] ClassOf(self) = "Network" -> NetworkCall(self, m, args, a)
      [] ClassOf(self) = "Run" -> RunCall(self, m, args, a)
      [] ClassOf(self) = "ip_name_lookup" -> resolve_addresses(self, m, args, a)
      [] ClassOf(self) = "wasi_filesystem_types"
           -> filesystem_error_code(self, m, args, a)

-----------------------------------------------------------------------------
(* The state machine: every step is one call.                              *)

\* A freshly constructed object has no instance attribute: no class of the
\* surface defines __init__.
FreshAttrs == {}

Init ==
    /\ attrs = [o \in Objects |-> FreshAttrs]
    /\ calls = <<>>

\* One call self.m(*args): the body runs, its outcome is logged, and the
\* attributes it leaves behind become self's.
Call(self, m, args) ==
    /\ Len(calls) < MaxCalls
    /\ m \in Methods(ClassOf(self))
    /\ args \in ArgsOf(ClassOf(self), m)
    /\ LET r == Invoke(self, m, args, attrs[self])
       IN /\ attrs' = [attrs EXCEPT ![self] = r.attrs]
          /\ calls' = Append(calls, [obj |-> self, method |-> m, args |-> args,
                                     outcome |-> r.outcome])

TcpSocket_start_bind ==
    \E n \in Networks, la \in Addresses : Call("tcp", "start_bind", <<n, la>>)

TcpSocket_finish_bind == Call("tcp", "finish_bind", <<>>)

TcpSocket_start_connect ==
    \E n \in Networks, ra \in Addresses : Call("tcp", "start_connect", <<n, ra>>)

TcpSocket_finish_connect == Call("tcp", "finish_connect", <<>>)

TcpSocket_start_listen == Call("tcp", "start_listen", <<>>)

TcpSocket_finish_listen == Call("tcp", "finish_listen", <<>>)

TcpSocket_accept == Call("tcp", "accept", <<>>)

TcpSocket_local_address == Call("tcp", "local_address", <<>>)

TcpSocket_subscribe == Call("tcp", "subscribe", <<>>)

TcpSocket_enter == Call("tcp", "__enter__", <<>>)

TcpSocket_exit == Call("tcp", "__exit__", <<>>)

\* The socket-option getters and setters, remote_address, is_listening,
\* address_family and shutdown.
TcpSocket_other ==
    \E m \in TcpSocketMethods \ { "start_bind", "finish_bind", "start_connect",
                                  "finish_connect", "start_listen",
                                  "finish_listen", "accept", "local_address",
                                  "subscribe", "__enter__", "__exit__" } :
        \E args \in ArgsOf("TcpSocket", m) : Call("tcp", m, args)

UdpSocket_start_bind ==
    \E n \in Networks, la \in Addresses : Call("udp", "start_bind", <<n, la>>)

UdpSocket_finish_bind == Call("udp", "finish_bind", <<>>)

UdpSocket_stream ==
    \E args \in ArgsOf("UdpSocket", "stream") : Call("udp", "stream", args)

UdpSocket_other ==
    \E m \in UdpSocketMethods \ { "start_bind", "finish_bind", "stream" } :
        \E args \in ArgsOf("UdpSocket", m) : Call("udp", m, args)

Descriptor_open_at ==
    \E args \in OpenAtArgs : Call("descriptor", "open_at", args)

\* A method of one of the other classes, or a module-level function.
CallOther ==
    \E o \in Objects \ { "tcp", "udp" } :
        \E m \in Methods(ClassOf(o)) \ { "open_at" } :
            \E args \in ArgsOf(ClassOf(o), m) : Call(o, m, args)

Next ==
    \/ TcpSocket_start_bind
    \/ TcpSocket_finish_bind
    \/ TcpSocket_start_connect
    \/ TcpSocket_finish_connect
    \/ TcpSocket_start_listen
    \/ TcpSocket_finish_listen
    \/ TcpSocket_accept
    \/ TcpSocket_local_address
    \/ TcpSocket_subscribe
    \/ TcpSocket_enter
    \/ TcpSocket_exit
    \/ TcpSocket_other
    \/ UdpSocket_start_bind
    \/ UdpSocket_finish_bind
    \/ UdpSocket_stream
    \/ UdpSocket_other
    \/ Descriptor_open_at
    \/ CallOther

Spec == Init /\ [][Next]_vars

-----------------------------------------------------------------------------
(* Vocabulary of the properties.                                           *)

Sockets == { "tcp", "udp" }

CallIndex == 1 .. Len(calls)

\* The start method a finish method completes.
StartOf(finish) ==
    CASE finish = "finish_bind" -> "start_bind"
      [] finish = "finish_connect" -> "start_connect"
      [] finish = "finish_listen" -> "start_listen"

FinishMethods(cls) ==
    IF cls = "TcpSocket"
    THEN { "finish_bind", "finish_connect", "finish_listen" }
    ELSE { "finish_bind" }

\* Before call j, an operation that finish would complete is in progress on
\* the object of call j: its start was accepted and no later finish has
\* completed it (a finish that answers would-block completes nothing).
InProgress(j, finish) ==
    \E i \in 1 .. (j - 1) :
        /\ calls[i].obj = calls[j].obj
        /\ calls[i].method = StartOf(finish)
        /\ calls[i].outcome.kind = "return"
        /\ \A k \in (i + 1) .. (j - 1) :
               ~ ( /\ calls[k].obj = calls[j].obj
                   /\ calls[k].method = finish
                   /\ calls[k].outcome # Err("would-block") )

\* No operation of a socket ever completes: every call on a socket other than
\* __enter__ raises NotImplementedError.  Hence no bind, listen or connect
\* succeeds, nothing answers would-block, and subscribe and accept hand out
\* no pollable and no socket.
NoSocketOperationReturns ==
    \A i \in CallIndex :
        (calls[i].obj \in Sockets /\ calls[i].method # "__enter__")
            => calls[i].outcome = NotImplemented

-----------------------------------------------------------------------------
(* C1 *)

\* C1 (as stated): every call of every method and of every module-level
\* function ends in NotImplementedError and returns no value.
C1_EveryCallRaisesNotImplemented ==
    \A i \in CallIndex : calls[i].outcome = NotImplemented

\* C1 (amended): every call of a method other than __enter__, and of either
\* module-level function, ends in NotImplementedError and returns no value;
\* __enter__ returns the object it is called on.
C1_EveryCallButEnterRaises ==
    \A i \in CallIndex :
        IF calls[i].method = "__enter__"
        THEN calls[i].outcome = Return(calls[i].obj)
        ELSE calls[i].outcome = NotImplemented

\* A socket was entered and then asked to finish a bind.
C1_Witness ==
    /\ Len(calls) = 2
    /\ calls[1].obj = "tcp" /\ calls[1].method = "__enter__"
    /\ calls[1].outcome = Return("tcp")
    /\ calls[2].obj = "tcp" /\ calls[2].method = "finish_bind"
    /\ calls[2].outcome = NotImplemented

-----------------------------------------------------------------------------
(* C2 *)

-----------------------------------------------------------------------------
(* C5 *)

\* C5: after a bind attempt on a TcpSocket that failed, with no bind in
\* progress and none completed, the socket is unbound again and a new
\* start_bind is accepted.
C5_RebindAfterFailureAccepted ==
    \A j \in CallIndex :
        ( /\ calls[j].obj = "tcp" /\ calls[j].method = "start_bind"
          /\ \E i \in 1 .. (j - 1) :
                 calls[i].obj = "tcp" /\ calls[i].method = "start_bind"
          /\ \A i \in 1 .. (j - 1) :
                 (calls[i].obj = "tcp"
                  /\ calls[i].method \in {"start_bind", "finish_bind"})
                     => calls[i].outcome.kind = "raise" )
            => calls[j].outcome.kind = "return"

-----------------------------------------------------------------------------
(* C6 *)

\* C6: finish_bind, finish_listen and finish_connect on a TcpSocket, and
\* finish_bind on a UdpSocket, fail with not-in-progress whenever the
\* matching start has not been called or its operation has already been
\* finished, and leave the socket unchanged.
C6_FinishWithoutStartNotInProgress ==
    \A j \in CallIndex :
        ( /\ calls[j].obj \in Sockets
          /\ calls[j].method \in FinishMethods(ClassOf(calls[j].obj))
          /\ ~ InProgress(j, calls[j].method) )
            => /\ calls[j].outcome = Err("not-in-progress")
               /\ attrs[calls[j].obj] = FreshAttrs

-----------------------------------------------------------------------------
(* C8 *)

\* C8: after a connection attempt on a TcpSocket that failed, every later
\* call of a method of the resource (every method but the drop, __exit__,
\* and the context-manager entry, __enter__) answers invalid-state.
C8_ClosedAfterFailedConnect ==
    \A i, j \in CallIndex :
        ( /\ i < j
          /\ calls[i].obj = "tcp" /\ calls[i].method = "start_connect"
          /\ calls[i].outcome.kind = "raise"
          /\ calls[j].obj = "tcp"
          /\ calls[j].method \notin {"__enter__", "__exit__"} )
            => calls[j].outcome = Err("invalid-state")

-----------------------------------------------------------------------------
(* C11 *)

\* Before call j a bind has succeeded on the object of call j: one of its
\* finish_bind calls returned.
BindSucceeded(j) ==
    \E i \in 1 .. (j - 1) :
        /\ calls[i].obj = calls[j].obj
        /\ calls[i].method = "finish_bind"
        /\ calls[i].outcome.kind = "return"

\* C11: TcpSocket.start_listen and UdpSocket.stream, called on a socket on
\* which no bind has succeeded, fail with invalid-state and bind nothing
\* implicitly (the socket is left as it was).
C11_UnboundListenOrStreamInvalidState ==
    \A j \in CallIndex :
        ( /\ \/ calls[j].obj = "tcp" /\ calls[j].method = "start_listen"
             \/ calls[j].obj = "udp" /\ calls[j].method = "stream"
          /\ ~ BindSucceeded(j) )
            => /\ calls[j].outcome = Err("invalid-state")
               /\ attrs[calls[j].obj] = FreshAttrs

-----------------------------------------------------------------------------
(* C12 *)

\* Before call j the object of call j has entered the listening state: one
\* of its finish_listen calls returned.
Listening(j) ==
    \E i \in 1 .. (j - 1) :
        /\ calls[i].obj = calls[j].obj
        /\ calls[i].method = "finish_listen"
        /\ calls[i].outcome.kind = "return"

\* C12: TcpSocket.is_listening returns true exactly when the socket is in
\* the listening state, and false in every other state.
C12_IsListeningTellsListening ==
    \A j \in CallIndex :
        (calls[j].obj = "tcp" /\ calls[j].method = "is_listening")
            => calls[j].outcome
                 = Return(IF Listening(j) THEN "True" ELSE "False")

-----------------------------------------------------------------------------
(* C13 *)

\* C13: TcpSocket.accept fails with invalid-state whenever the socket is not
\* in the listening state and, on a listening socket with no pending
\* connection (no peer ever connects here), with would-block; either way it
\* returns no socket and leaves the listener as it was.
C13_AcceptInvalidStateOrWouldBlock ==
    \A j \in CallIndex :
        (calls[j].obj = "tcp" /\ calls[j].method = "accept")
            => /\ calls[j].outcome
                    = Err(IF Listening(j) THEN "would-block" ELSE "invalid-state")
               /\ attrs["tcp"] = FreshAttrs

-----------------------------------------------------------------------------
(* C15 *)

\* Before call j the object of call j was opened with the mutate-directory
\* flag: an open_at whose flags contain it returned that object.
MutateDirectorySet(j) ==
    \E i \in 1 .. (j - 1) :
        /\ calls[i].method = "open_at"
        /\ calls[i].outcome = Return(calls[j].obj)
        /\ "MUTATE_DIRECTORY" \in calls[i].args[4]

\* The open asks for more than reading: flags contain write or
\* mutate-directory, or open_flags contain truncate or create.
AsksToMutate(args) ==
    \/ args[4] \cap { "WRITE", "MUTATE_DIRECTORY" } # {}
    \/ args[3] \cap { "TRUNCATE", "CREATE" } # {}

\* C15: Descriptor.open_at fails with read-only, and opens or creates
\* nothing, whenever the base descriptor does not have mutate-directory set
\* and the open asks for more than reading.
C15_OpenAtReadOnly ==
    \A j \in CallIndex :
        ( /\ calls[j].obj = "descriptor" /\ calls[j].method = "open_at"
          /\ ~ MutateDirectorySet(j)
          /\ AsksToMutate(calls[j].args) )
            => /\ calls[j].outcome = Err("read-only")
               /\ attrs["descriptor"] = FreshAttrs

=============================================================================
